---------------------------- MODULE Spec2Model ----------------------------
(***************************************************************************)
(* Interval / IntervalSet of the ANTLR4 Rust runtime                       *)
(* (src/runtime/Rust/antlr4-rust/src/antlr4/runtime/misc/interval.rs).     *)
(*                                                                         *)
(* An IntervalSet is modelled by its two fields, `intervals` (Vec<Interval>*)
(* as a sequence of records [a, b]) and `read_only`.  Every method is an   *)
(* operator computed the way the Rust code computes it; the actions apply  *)
(* the methods to the modelled object and record what the call returned.   *)
(* Vec indices are 0-based in the source and 1-based here.                 *)
(* A VocabularyImpl (vocabulary.rs) is modelled by `vocabulary`, its four  *)
(* fields, and `vcall`, the last call made on it.                          *)
(***************************************************************************)
EXTENDS Integers, Sequences, FiniteSets

VARIABLES intervals, read_only, op, arg, ret, out, num, lst, pre, loop,
          vocabulary, vcall

vars == <<intervals, read_only, op, arg, ret, out, num, lst, pre, loop,
          vocabulary, vcall>>

(***************************************************************************)
(* Bounds of the model.                                                    *)
(***************************************************************************)
\* the longest name list handed to a vocabulary constructor
MaxNames == 1

\* integers handled by the model are 0..MaxVal (queries also probe -1 and MaxVal+1)
MaxVal == 4
\* of / of_same push onto a set only while it holds fewer than MaxLen intervals
MaxLen == 1

Values == 0..MaxVal
Probes == (0 - 1)..(MaxVal + 1)

Min(x, y) == IF x <= y THEN x ELSE y
Max(x, y) == IF x >= y THEN x ELSE y

(***************************************************************************)
(* Interval                                                                *)
(***************************************************************************)
Interval(a, b) == [a |-> a, b |-> b]

interval_contains(self, item) == item >= self.a /\ item <= self.b

length(self) == IF self.b < self.a THEN 0 ELSE self.b - self.a

starts_before_disjoint(self, other) == self.a < other.a /\ self.b < other.a

starts_before_non_disjoint(self, other) == self.a <= other.a /\ self.b >= other.a

starts_after(self, other) == self.a > other.a

\* starts_after_disjoint that compares with the other start, as starts_after does
starts_after_disjoint_by_start(self, other) == self.a > other.a

starts_after_disjoint(self, other) == self.a > other.b

starts_after_non_disjoint(self, other) == self.a > other.a /\ self.a <= other.b

disjoint(self, other) ==
    starts_before_disjoint(self, other) \/ starts_after_disjoint(self, other)

adjacent(self, other) == self.a = other.b + 1 \/ self.b = other.a - 1

properly_contains(self, other) == other.a >= self.a /\ other.b <= self.b

\* union that returns the receiver instead of the span of the two
union_keep_self(self, other) == self

union(self, other) == Interval(Min(self.a, other.a), Max(self.b, other.b))

intersection(self, other) == Interval(Max(self.a, other.a), Min(self.b, other.b))

\* a left trim that keeps the last integer of other
difference_keeps_edge(self, other) ==
    IF starts_before_non_disjoint(other, self)
    THEN <<Interval(Max(self.a, other.b), self.b)>>
    ELSE IF starts_after_non_disjoint(other, self)
         THEN <<Interval(self.a, other.a - 1)>>
         ELSE <<>>

\* Option<Interval>: <<>> is None, <<iv>> is Some(iv)
difference_not_properly_contained(self, other) ==
    IF starts_before_non_disjoint(other, self)
    THEN <<Interval(Max(self.a, other.b + 1), self.b)>>
    ELSE IF starts_after_non_disjoint(other, self)
         THEN <<Interval(self.a, other.a - 1)>>
         ELSE <<>>

(***************************************************************************)
(* Vec<Interval> primitives                                                *)
(***************************************************************************)
\* an insert one position too far to the left
InsertAt_one_early(s, i, v) ==
    IF i <= 1
    THEN <<v>> \o s
    ELSE SubSeq(s, 1, i - 2) \o <<v>> \o SubSeq(s, i - 1, Len(s))

\* an insert one position too far to the right
InsertAt_one_late(s, i, v) == SubSeq(s, 1, i) \o <<v>> \o SubSeq(s, i + 1, Len(s))

\* Vec::insert(index, v) with the 1-based position i
InsertAt(s, i, v) == SubSeq(s, 1, i - 1) \o <<v>> \o SubSeq(s, i, Len(s))

\* a remove that is forgotten: the vector keeps the element
RemoveAt_forgotten(s, i) == s

\* Vec::remove(index) with the 1-based position i
RemoveAt(s, i) == SubSeq(s, 1, i - 1) \o SubSeq(s, i + 1, Len(s))

(***************************************************************************)
(* IntervalSet::add                                                        *)
(***************************************************************************)
\* add without the forward merge: the slot at `index` keeps `bigger` and the
\* following intervals are left as they were
add_cascade_no_merge(ivs, bigger, index) == ivs

\* the inner while loop of add: `bigger` is never updated, the cursor always
\* comes back to `index`, the slot at `index` receives bigger.union(next)
RECURSIVE add_cascade(_, _, _)
add_cascade(ivs, bigger, index) ==
    IF index < Len(ivs)
    THEN LET next == ivs[index + 1] IN
         IF ~adjacent(bigger, next) /\ disjoint(bigger, next)
         THEN ivs
         ELSE add_cascade([RemoveAt(ivs, index + 1) EXCEPT ![index] = union(bigger, next)],
                          bigger, index)
    ELSE ivs

\* the for loop of add, from position `index` on; falling out of the loop
\* returns Ok(()) without touching the vector
RECURSIVE add_scan(_, _, _)
add_scan(ivs, addition, index) ==
    IF index > Len(ivs)
    THEN ivs
    ELSE LET r == ivs[index] IN
         IF addition = r
         THEN ivs
         ELSE IF adjacent(addition, r) \/ ~disjoint(addition, r)
              THEN LET bigger == union(addition, r) IN
                   add_cascade([ivs EXCEPT ![index] = bigger], bigger, index)
              ELSE IF starts_before_disjoint(addition, r)
                   THEN InsertAt(ivs, index, addition)
                   ELSE add_scan(ivs, addition, index + 1)

\* add(&mut self, addition) -> Result<(), IntervalSetError>
add(ivs, ro, addition) ==
    IF ro
    THEN [intervals |-> ivs, ret |-> "Err"]
    ELSE [intervals |-> add_scan(ivs, addition, 1), ret |-> "Ok"]

\* add_set(&mut self, iset): self.add(*m)? for every m of iset, in order
RECURSIVE add_set_loop(_, _, _, _)
add_set_loop(ivs, ro, iset, k) ==
    IF k > Len(iset)
    THEN [intervals |-> ivs, ret |-> "Ok"]
    ELSE LET r == add(ivs, ro, iset[k]) IN
         IF r.ret = "Err" THEN r ELSE add_set_loop(r.intervals, ro, iset, k + 1)

add_set(ivs, ro, iset) ==
    IF ro
    THEN [intervals |-> ivs, ret |-> "Err"]
    ELSE add_set_loop(ivs, ro, iset, 1)

\* clear without the read_only test
clear_unchecked(ivs, ro) == [intervals |-> <<>>, ret |-> "Ok"]

\* clear(&mut self) -> Result<(), &str>
clear(ivs, ro) ==
    IF ro
    THEN [intervals |-> ivs, ret |-> "Err"]
    ELSE [intervals |-> <<>>, ret |-> "Ok"]

\* of(&mut self, a, b): pushes, whatever the flag
of(ivs, a, b) == Append(ivs, Interval(a, b))

\* of_same(&mut self, a)
of_same(ivs, a) == Append(ivs, Interval(a, a))

\* remove(&mut self, el): the body is a TODO
remove(ivs, el) == ivs

\* set_read_only without the panic: the flag is simply assigned
set_read_only_assign(ro, v) == [read_only |-> v, ret |-> "Ok"]

\* set_read_only(&mut self, v): panics before the assignment when it would
\* clear a flag that is set
set_read_only(ro, v) ==
    IF ro /\ ~v
    THEN [read_only |-> ro, ret |-> "panic"]
    ELSE [read_only |-> v, ret |-> "Ok"]

(***************************************************************************)
(* IntervalSet queries                                                     *)
(***************************************************************************)
is_empty(ivs) == Len(ivs) = 0

\* the while loop of contains over the 0-based usize cursors l and r.
\* `r = m - 1` with m = 0 underflows usize: with overflow checks the
\* subtraction panics; without them r wraps to usize::MAX, the loop goes on
\* with l = 0, m = usize::MAX / 2 and the index self.intervals[m] panics.
RECURSIVE contains_loop(_, _, _, _)
contains_loop(ivs, el, l, r) ==
    IF l <= r
    THEN LET m    == (l + r) \div 2
             ival == ivs[m + 1]
         IN  IF ival.b < el
             THEN contains_loop(ivs, el, m + 1, r)
             ELSE IF ival.a > el
                  THEN IF m = 0 THEN "panic" ELSE contains_loop(ivs, el, l, m - 1)
                  ELSE "true"
    ELSE "false"

\* contains(&self, el) -> bool: "true", "false" or "panic".
\* `let mut r = n - 1` with n = 0 underflows usize in the same way.
contains(ivs, el) ==
    IF Len(ivs) = 0 THEN "panic" ELSE contains_loop(ivs, el, 0, Len(ivs) - 1)

RECURSIVE size_loop(_, _, _)
size_loop(ivs, i, n) ==
    IF i > Len(ivs) THEN n ELSE size_loop(ivs, i + 1, n + ivs[i].b - ivs[i].a + 1)

\* size(&self) -> i32
size(ivs) ==
    IF Len(ivs) = 1
    THEN ivs[1].b - ivs[1].a + 1
    ELSE size_loop(ivs, 1, 0)

\* the inner loop `for v in ival.a..=ival.b`
RECURSIVE range_inclusive(_, _)
range_inclusive(a, b) == IF a > b THEN <<>> ELSE <<a>> \o range_inclusive(a + 1, b)

RECURSIVE to_integer_list_loop(_, _, _)
to_integer_list_loop(ivs, i, values) ==
    IF i > Len(ivs)
    THEN values
    ELSE to_integer_list_loop(ivs, i + 1, values \o range_inclusive(ivs[i].a, ivs[i].b))

\* to_integer_list(&self) -> Vec<i32>
to_integer_list(ivs) == to_integer_list_loop(ivs, 1, <<>>)

(***************************************************************************)
(* IntervalSet::and                                                        *)
(***************************************************************************)
\* `let _ = intersection.add(..)` on the local set made by IntervalSet::new()
and_emit(inter, mine, theirs) == add(inter, FALSE, intersection(mine, theirs)).intervals

\* one iteration of the while loop; st = [i, j, inter], cursors 0-based
and_step(my_intervals, their_intervals, st) ==
    LET mine   == my_intervals[st.i + 1]
        theirs == their_intervals[st.j + 1]
    IN  IF starts_before_disjoint(mine, theirs)
        THEN [st EXCEPT !.i = st.i + 1]
        ELSE IF starts_before_disjoint(theirs, mine)
        THEN [st EXCEPT !.j = st.j + 1]
        ELSE IF properly_contains(mine, theirs)
        THEN [st EXCEPT !.inter = and_emit(st.inter, mine, theirs), !.j = st.j + 1]
        ELSE IF properly_contains(theirs, mine)
        THEN [st EXCEPT !.inter = and_emit(st.inter, mine, theirs), !.j = st.j + 1]
        ELSE IF ~disjoint(mine, theirs)
        THEN LET e == and_emit(st.inter, mine, theirs) IN
             IF starts_after_non_disjoint(mine, theirs)
             THEN [st EXCEPT !.inter = e, !.j = st.j + 1]
             ELSE IF starts_after_non_disjoint(theirs, mine)
                  THEN [st EXCEPT !.inter = e, !.i = st.i + 1]
                  ELSE [st EXCEPT !.inter = e]
        ELSE st

\* the while loop; an iteration that changes nothing repeats for ever ("hang")
RECURSIVE and_loop(_, _, _)
and_loop(my_intervals, their_intervals, st) ==
    IF st.i < Len(my_intervals) /\ st.j < Len(their_intervals)
    THEN LET nx == and_step(my_intervals, their_intervals, st) IN
         IF nx = st
         THEN [ret |-> "hang", intervals |-> st.inter]
         ELSE and_loop(my_intervals, their_intervals, nx)
    ELSE [ret |-> "Some", intervals |-> st.inter]

\* and(&self, other: &Option<&IntervalSet>) -> Option<IntervalSet>;
\* other = [some |-> BOOLEAN, intervals |-> ...]
and(ivs, other) ==
    IF other.some
    THEN and_loop(ivs, other.intervals, [i |-> 0, j |-> 0, inter |-> <<>>])
    ELSE [ret |-> "None", intervals |-> <<>>]

(***************************************************************************)
(* subtract_intervalsets                                                   *)
(***************************************************************************)
\* subtract's iteration with the split case handled like the "replace" case:
\* the right remainder is never inserted
subtract_step_no_split(right, st) ==
    LET result_interval == st.result[st.result_i + 1]
        right_interval  == right[st.right_i + 1]
        has_before == right_interval.a > result_interval.a
        has_after  == right_interval.b < result_interval.b
        before_current == Interval(result_interval.a, right_interval.a - 1)
        after_current  == Interval(right_interval.b + 1, result_interval.b)
    IN  IF right_interval.b < result_interval.a
        THEN [st EXCEPT !.right_i = st.right_i + 1]
        ELSE IF right_interval.a > result_interval.b
        THEN [st EXCEPT !.result_i = st.result_i + 1]
        ELSE IF has_before
        THEN [st EXCEPT
                !.result = [st.result EXCEPT ![st.result_i + 1] = before_current],
                !.result_i = st.result_i + 1]
        ELSE IF has_after
             THEN [st EXCEPT
                     !.result = [st.result EXCEPT ![st.result_i + 1] = after_current],
                     !.right_i = st.right_i + 1]
             ELSE [st EXCEPT !.result = RemoveAt(st.result, st.result_i + 1)]

\* one iteration of the while loop; st = [result, result_i, right_i]
subtract_step(right, st) ==
    LET result_interval == st.result[st.result_i + 1]
        right_interval  == right[st.right_i + 1]
        has_before == right_interval.a > result_interval.a
        has_after  == right_interval.b < result_interval.b
        before_current == Interval(result_interval.a, right_interval.a - 1)
        after_current  == Interval(right_interval.b + 1, result_interval.b)
    IN  IF right_interval.b < result_interval.a
        THEN [st EXCEPT !.right_i = st.right_i + 1]
        ELSE IF right_interval.a > result_interval.b
        THEN [st EXCEPT !.result_i = st.result_i + 1]
        ELSE IF has_before
        THEN IF has_after
             THEN [st EXCEPT
                     !.result = InsertAt([st.result EXCEPT ![st.result_i + 1] = before_current],
                                         st.result_i + 2, after_current),
                     !.result_i = st.result_i + 1]
             ELSE [st EXCEPT
                     !.result = [st.result EXCEPT ![st.result_i + 1] = before_current],
                     !.result_i = st.result_i + 1]
        ELSE IF has_after
             THEN [st EXCEPT
                     !.result = [st.result EXCEPT ![st.result_i + 1] = after_current],
                     !.right_i = st.right_i + 1]
             ELSE [st EXCEPT !.result = RemoveAt(st.result, st.result_i + 1)]

RECURSIVE subtract_loop(_, _)
subtract_loop(right, st) ==
    IF st.result_i < Len(st.result) /\ st.right_i < Len(right)
    THEN subtract_loop(right, subtract_step(right, st))
    ELSE st.result

subtract_intervalsets(left, right) ==
    IF is_empty(left)
    THEN <<>>
    ELSE IF is_empty(right)
         THEN left
         ELSE subtract_loop(right, [result |-> left, result_i |-> 0, right_i |-> 0])

\* subtract(&self, other) -> IntervalSet
subtract(ivs, other) == subtract_intervalsets(ivs, other)

(***************************************************************************)
(* complement, first, get_min_element, get_max_element                     *)
(***************************************************************************)
\* complement with the operands of subtract exchanged
complement_swapped(ivs, vocab) ==
    IF is_empty(vocab)
    THEN [ret |-> "None", intervals |-> <<>>]
    ELSE [ret |-> "Some", intervals |-> subtract(ivs, vocab)]

\* complement(&self, vocab) -> Option<IntervalSet>
complement(ivs, vocab) ==
    IF is_empty(vocab)
    THEN [ret |-> "None", intervals |-> <<>>]
    ELSE [ret |-> "Some", intervals |-> subtract(vocab, ivs)]

\* complement_range(&self, a, b): complement against IntervalSet::new().of(a, b)
complement_range(ivs, a, b) == complement(ivs, of(<<>>, a, b))

\* first that reads the last stored interval
first_of_last(ivs) ==
    IF Len(ivs) = 0
    THEN [ret |-> "Err", num |-> 0]
    ELSE [ret |-> "Ok", num |-> ivs[Len(ivs)].a]

\* first(&self) -> Result<i32, TokenType>: Err(TokenType::InvalidType) or Ok(a)
first(ivs) ==
    IF Len(ivs) = 0
    THEN [ret |-> "Err", num |-> 0]
    ELSE [ret |-> "Ok", num |-> ivs[1].a]

\* get_max_element(&self) -> Option<i32>
get_max_element(ivs) ==
    IF Len(ivs) = 0
    THEN [ret |-> "None", num |-> 0]
    ELSE [ret |-> "Some", num |-> ivs[Len(ivs)].b]

\* get_min_element(&self) -> Option<i32>
get_min_element(ivs) ==
    IF Len(ivs) = 0
    THEN [ret |-> "None", num |-> 0]
    ELSE [ret |-> "Some", num |-> ivs[1].a]

(***************************************************************************)
(* Inputs                                                                  *)
(***************************************************************************)
\* every Interval::new(a, b) over the model's integers, b < a included
AllIntervals == {Interval(a, b) : a \in Values, b \in Values}

WellFormed(iv) == iv.a <= iv.b

WFIntervals == {iv \in AllIntervals : WellFormed(iv)}

\* the sorted/disjoint invariant of a stored sequence: every interval
\* well-formed and, for consecutive p, q: p.b + 1 < q.a
Normalized(ivs) ==
    /\ \A i \in 1..Len(ivs) : WellFormed(ivs[i])
    /\ \A i \in 1..(Len(ivs) - 1) : ivs[i].b + 1 < ivs[i + 1].a

\* the sequence a caller hands to new_from_intervals for the integer set T:
\* its maximal runs in ascending order
RECURSIVE RunsOf(_)
RunsOf(T) ==
    IF T = {}
    THEN <<>>
    ELSE LET lo == CHOOSE x \in T : \A y \in T : x <= y
             hi == CHOOSE h \in T : /\ \A y \in lo..h : y \in T
                                    /\ (h + 1) \notin T
         IN  <<Interval(lo, hi)>> \o RunsOf(T \ (lo..hi))

NormSets == {RunsOf(T) : T \in SUBSET Values}

\* the integers a stored sequence covers, by Interval::contains
Covered(ivs) == {x \in Probes : \E i \in 1..Len(ivs) : interval_contains(ivs[i], x)}

\* the elements of a Vec<i32>
Elems(values) == {values[i] : i \in 1..Len(values)}

(***************************************************************************)
(* State                                                                   *)
(***************************************************************************)
\* the argument of the last call: an interval or a set (ivs), an integer (n),
\* a boolean (v: set_read_only's v, and whether and's `other` is Some)
NoArg == [ivs |-> <<>>, n |-> 0, v |-> FALSE]

\* the locals of a while loop that is being run iteration by iteration:
\* pc names the loop ("idle" when none runs), i and j are its two 0-based
\* cursors, res the set it builds
NoLoop == [pc |-> "idle", i |-> 0, j |-> 0, res |-> <<>>]

\* Option<String>: a String is the sequence of its chars
None == [some |-> FALSE, val |-> <<>>]

Some(x) == [some |-> TRUE, val |-> x]

\* the VocabularyImpl object: its four fields; state is "none" before the
\* constructor ran, "ok" once it returned, "panic" when it panicked
NoVocab ==
    [state |-> "none", literal_names |-> <<>>, symbolic_names |-> <<>>,
     display_names |-> <<>>, max_token_type |-> 0]

\* the last call on the vocabulary: its name, its token_type argument, the
\* Option<String> it returned (name) or the i32 it returned (num)
NoCall == [op |-> "none", token_type |-> 0, name |-> None, num |-> 0]

\* the last call and what it returned: op its name, ret the result tag,
\* out a returned IntervalSet, num a returned i32, lst a returned Vec<i32>;
\* pre is the stored sequence the call found
Called(o, a, r, ou, n, l) ==
    /\ op' = o
    /\ arg' = a
    /\ ret' = r
    /\ out' = ou
    /\ num' = n
    /\ lst' = l
    /\ pre' = intervals
    /\ loop' = NoLoop
    /\ UNCHANGED <<vocabulary, vcall>>

\* a panic ends the program; a loop that never exits never returns
Running == ret \notin {"panic", "hang"}

\* IntervalSet::new() and IntervalSet::new_from_intervals(ivs)
new == [intervals |-> <<>>, read_only |-> FALSE]

new_from_intervals(ivs) == [intervals |-> ivs, read_only |-> FALSE]

Init ==
    /\ \E ivs \in NormSets :
          \E s \in {new, new_from_intervals(ivs)} :
             /\ intervals = s.intervals
             /\ read_only = s.read_only
    /\ op = "new"
    /\ arg = NoArg
    /\ ret = "none"
    /\ out = <<>>
    /\ num = 0
    /\ lst = <<>>
    /\ pre = intervals
    /\ loop = NoLoop
    /\ vocabulary = NoVocab
    /\ vcall = NoCall

(***************************************************************************)
(* Mutators                                                                *)
(***************************************************************************)
Add(addition) ==
    /\ Running
    /\ LET r == add(intervals, read_only, addition) IN
       /\ intervals' = r.intervals
       /\ Called("add", [NoArg EXCEPT !.ivs = <<addition>>], r.ret, <<>>, 0, <<>>)
    /\ UNCHANGED read_only

AddSet(iset) ==
    /\ Running
    /\ LET r == add_set(intervals, read_only, iset) IN
       /\ intervals' = r.intervals
       /\ Called("add_set", [NoArg EXCEPT !.ivs = iset], r.ret, <<>>, 0, <<>>)
    /\ UNCHANGED read_only

Clear ==
    /\ Running
    /\ LET r == clear(intervals, read_only) IN
       /\ intervals' = r.intervals
       /\ Called("clear", NoArg, r.ret, <<>>, 0, <<>>)
    /\ UNCHANGED read_only

Of(a, b) ==
    /\ Running
    /\ Len(intervals) < MaxLen
    /\ intervals' = of(intervals, a, b)
    /\ Called("of", [NoArg EXCEPT !.ivs = <<Interval(a, b)>>], "none", <<>>, 0, <<>>)
    /\ UNCHANGED read_only

OfSame(a) ==
    /\ Running
    /\ Len(intervals) < MaxLen
    /\ intervals' = of_same(intervals, a)
    /\ Called("of_same", [NoArg EXCEPT !.n = a], "none", <<>>, 0, <<>>)
    /\ UNCHANGED read_only

Remove(el) ==
    /\ Running
    /\ intervals' = remove(intervals, el)
    /\ Called("remove", [NoArg EXCEPT !.n = el], "none", <<>>, 0, <<>>)
    /\ UNCHANGED read_only

SetReadOnly(v) ==
    /\ Running
    /\ LET r == set_read_only(read_only, v) IN
       /\ read_only' = r.read_only
       /\ Called("set_read_only", [NoArg EXCEPT !.v = v], r.ret, <<>>, 0, <<>>)
    /\ UNCHANGED intervals

(***************************************************************************)
(* Queries                                                                 *)
(***************************************************************************)
Contains(el) ==
    /\ Running
    /\ Called("contains", [NoArg EXCEPT !.n = el], contains(intervals, el), <<>>, 0, <<>>)
    /\ UNCHANGED <<intervals, read_only>>

Size ==
    /\ Running
    /\ Called("size", NoArg, "value", <<>>, size(intervals), <<>>)
    /\ UNCHANGED <<intervals, read_only>>

ToIntegerList ==
    /\ Running
    /\ Called("to_integer_list", NoArg, "value", <<>>, 0, to_integer_list(intervals))
    /\ UNCHANGED <<intervals, read_only>>

And(other) ==
    /\ Running
    /\ LET r == and(intervals, other) IN
       Called("and", [NoArg EXCEPT !.ivs = other.intervals, !.v = other.some],
              r.ret, r.intervals, 0, <<>>)
    /\ UNCHANGED <<intervals, read_only>>

Subtract(other) ==
    /\ Running
    /\ Called("subtract", [NoArg EXCEPT !.ivs = other], "value",
              subtract(intervals, other), 0, <<>>)
    /\ UNCHANGED <<intervals, read_only>>

Complement(vocab) ==
    /\ Running
    /\ LET r == complement(intervals, vocab) IN
       Called("complement", [NoArg EXCEPT !.ivs = vocab], r.ret, r.intervals, 0, <<>>)
    /\ UNCHANGED <<intervals, read_only>>

ComplementRange(a, b) ==
    /\ Running
    /\ LET r == complement_range(intervals, a, b) IN
       Called("complement_range", [NoArg EXCEPT !.ivs = <<Interval(a, b)>>],
              r.ret, r.intervals, 0, <<>>)
    /\ UNCHANGED <<intervals, read_only>>

First ==
    /\ Running
    /\ LET r == first(intervals) IN
       Called("first", NoArg, r.ret, <<>>, r.num, <<>>)
    /\ UNCHANGED <<intervals, read_only>>

GetMinElement ==
    /\ Running
    /\ LET r == get_min_element(intervals) IN
       Called("get_min_element", NoArg, r.ret, <<>>, r.num, <<>>)
    /\ UNCHANGED <<intervals, read_only>>

GetMaxElement ==
    /\ Running
    /\ LET r == get_max_element(intervals) IN
       Called("get_max_element", NoArg, r.ret, <<>>, r.num, <<>>)
    /\ UNCHANGED <<intervals, read_only>>

(***************************************************************************)
(* Specifications                                                          *)
(***************************************************************************)
\* the life of one set under the mutators that check the flag; add is given
\* well-formed intervals (a <= b) and add_set sorted/disjoint sets
Next ==
    \/ \E addition \in WFIntervals : Add(addition)
    \/ \E iset \in NormSets : AddSet(iset)
    \/ Clear
    \/ \E el \in Values : Remove(el)
    \/ \E v \in BOOLEAN : SetReadOnly(v)

Spec == Init /\ [][Next]_vars

\* the same life with the raw pushes of and of_same
NextPush ==
    \/ Next
    \/ \E a \in Values, b \in Values : Of(a, b)
    \/ \E a \in Values : OfSame(a)

SpecPush == Init /\ [][NextPush]_vars

\* the queries and the set algebra applied to a constructed set
NextAlg ==
    \/ \E el \in Probes : Contains(el)
    \/ Size
    \/ ToIntegerList
    \/ \E o \in NormSets : And([some |-> TRUE, intervals |-> o])
    \/ And([some |-> FALSE, intervals |-> <<>>])
    \/ \E o \in NormSets : Subtract(o)
    \/ \E vocab \in NormSets : Complement(vocab)
    \/ \E a \in Values, b \in Values : ComplementRange(a, b)
    \/ First
    \/ GetMinElement
    \/ GetMaxElement

SpecAlg == Init /\ [][NextAlg]_vars

(***************************************************************************)
(* Interval methods applied to intervals drawn from AllIntervals           *)
(***************************************************************************)
\* a returned bool
Bool(v) == IF v THEN "true" ELSE "false"

InitInterval ==
    /\ intervals = new.intervals
    /\ read_only = new.read_only
    /\ op = "new"
    /\ arg = NoArg
    /\ ret = "none"
    /\ out = <<>>
    /\ num = 0
    /\ lst = <<>>
    /\ pre = intervals
    /\ loop = NoLoop
    /\ vocabulary = NoVocab
    /\ vcall = NoCall

Length(p) ==
    /\ Called("length", [NoArg EXCEPT !.ivs = <<p>>], "value", <<>>, length(p), <<>>)
    /\ UNCHANGED <<intervals, read_only>>

IntervalContains(p, item) ==
    /\ Called("interval_contains", [NoArg EXCEPT !.ivs = <<p>>, !.n = item],
              Bool(interval_contains(p, item)), <<>>, 0, <<>>)
    /\ UNCHANGED <<intervals, read_only>>

Disjoint(p, q) ==
    /\ Called("disjoint", [NoArg EXCEPT !.ivs = <<p, q>>],
              Bool(disjoint(p, q)), <<>>, 0, <<>>)
    /\ UNCHANGED <<intervals, read_only>>

DifferenceNotProperlyContained(p, q) ==
    LET d == difference_not_properly_contained(p, q)
    IN  /\ Called("difference_not_properly_contained", [NoArg EXCEPT !.ivs = <<p, q>>],
                  IF d = <<>> THEN "None" ELSE "Some", d, 0, <<>>)
        /\ UNCHANGED <<intervals, read_only>>

NextInterval ==
    \/ \E p \in AllIntervals : Length(p)
    \/ \E p \in AllIntervals, item \in Probes : IntervalContains(p, item)
    \/ \E p \in AllIntervals, q \in AllIntervals : Disjoint(p, q)
    \/ \E p \in AllIntervals, q \in AllIntervals : DifferenceNotProperlyContained(p, q)

SpecInterval == InitInterval /\ [][NextInterval]_vars

(***************************************************************************)
(* The while loops of and and subtract_intervalsets, one iteration a step  *)
(***************************************************************************)
\* and(&self, &Some(other)) up to the loop: the cursors and the local
\* `intersection` are initialised
AndEnter(other) ==
    /\ loop.pc = "idle"
    /\ op' = "and"
    /\ arg' = [NoArg EXCEPT !.ivs = other, !.v = TRUE]
    /\ ret' = "running"
    /\ out' = <<>>
    /\ num' = 0
    /\ lst' = <<>>
    /\ pre' = intervals
    /\ loop' = [pc |-> "and", i |-> 0, j |-> 0, res |-> <<>>]
    /\ UNCHANGED <<intervals, read_only, vocabulary, vcall>>

\* one iteration of and's while loop
AndIter ==
    /\ loop.pc = "and"
    /\ loop.i < Len(intervals) /\ loop.j < Len(arg.ivs)
    /\ LET nx == and_step(intervals, arg.ivs,
                          [i |-> loop.i, j |-> loop.j, inter |-> loop.res])
       IN  loop' = [pc |-> "and", i |-> nx.i, j |-> nx.j, res |-> nx.inter]
    /\ UNCHANGED <<intervals, read_only, op, arg, ret, out, num, lst, pre, vocabulary, vcall>>

\* the loop condition fails: return Some(intersection)
AndExit ==
    /\ loop.pc = "and"
    /\ ~(loop.i < Len(intervals) /\ loop.j < Len(arg.ivs))
    /\ ret' = "Some"
    /\ out' = loop.res
    /\ loop' = NoLoop
    /\ UNCHANGED <<intervals, read_only, op, arg, num, lst, pre, vocabulary, vcall>>

\* subtract(&self, other) up to the loop: the two early returns, or `result`
\* initialised with a copy of self's intervals
SubEnter(other) ==
    /\ loop.pc = "idle"
    /\ op' = "subtract"
    /\ arg' = [NoArg EXCEPT !.ivs = other]
    /\ num' = 0
    /\ lst' = <<>>
    /\ pre' = intervals
    /\ IF is_empty(intervals)
       THEN ret' = "value" /\ out' = <<>> /\ loop' = NoLoop
       ELSE IF is_empty(other)
            THEN ret' = "value" /\ out' = intervals /\ loop' = NoLoop
            ELSE /\ ret' = "running"
                 /\ out' = <<>>
                 /\ loop' = [pc |-> "subtract", i |-> 0, j |-> 0, res |-> intervals]
    /\ UNCHANGED <<intervals, read_only, vocabulary, vcall>>

\* one iteration of subtract_intervalsets' while loop; i is result_i, j is right_i
SubIter ==
    /\ loop.pc = "subtract"
    /\ loop.i < Len(loop.res) /\ loop.j < Len(arg.ivs)
    /\ LET nx == subtract_step(arg.ivs,
                               [result |-> loop.res, result_i |-> loop.i, right_i |-> loop.j])
       IN  loop' = [pc |-> "subtract", i |-> nx.result_i, j |-> nx.right_i,
                    res |-> nx.result]
    /\ UNCHANGED <<intervals, read_only, op, arg, ret, out, num, lst, pre, vocabulary, vcall>>

\* the loop condition fails: return result
SubExit ==
    /\ loop.pc = "subtract"
    /\ ~(loop.i < Len(loop.res) /\ loop.j < Len(arg.ivs))
    /\ ret' = "value"
    /\ out' = loop.res
    /\ loop' = NoLoop
    /\ UNCHANGED <<intervals, read_only, op, arg, num, lst, pre, vocabulary, vcall>>

NextLoop ==
    \/ \E other \in NormSets : AndEnter(other)
    \/ AndIter
    \/ AndExit
    \/ \E other \in NormSets : SubEnter(other)
    \/ SubIter
    \/ SubExit

\* a call that has entered its loop runs it: the thread goes on to the next
\* iteration, or to the return, whenever there is one
SpecLoop ==
    /\ Init
    /\ [][NextLoop]_vars
    /\ WF_vars(AndIter)
    /\ WF_vars(AndExit)
    /\ WF_vars(SubIter)
    /\ WF_vars(SubExit)

(***************************************************************************)
(* VocabularyImpl (src/runtime/Rust/antlr4-rust/src/antlr4/runtime/        *)
(* vocabulary.rs)                                                          *)
(***************************************************************************)
\* int_stream.rs: pub const INT_STREAM_EOF: i32 = -1; TokenType::EOF.value()
INT_STREAM_EOF == -1

\* the Strings tried as names: 'a' (a literal), A (a symbolic name), a, and ""
Strings == {<<"'", "a", "'">>, <<"A">>, <<"a">>, <<>>}

\* char::is_uppercase on the chars that occur
is_uppercase(c) == c \in {"A", "E", "O", "F"}

OptStrings == {None} \cup {Some(x) : x \in Strings}

\* the Vec<Option<String>> of at most MaxNames entries
NameLists == UNION {[1..n -> OptStrings] : n \in 0..MaxNames}

\* token types asked for: Epsilon (-2), EOF (-1), and 0..MaxNames, the
\* last of which is past the end of every list
TokenTypes == (0 - 2)..MaxNames

\* the low 32 bits of `m - 1` computed in usize with wrap-around, as two
\* 16-bit halves: 0 - 1 wraps to 2^64 - 1, all ones
usize_wrapping_sub_one(m) ==
    IF m >= 1
    THEN [hi |-> (m - 1) \div 65536, lo |-> (m - 1) % 65536]
    ELSE [hi |-> 65535, lo |-> 65535]

\* `as i32`: the low 32 bits read as a two's complement number
as_i32(u) ==
    IF u.hi >= 32768
    THEN (u.hi - 65536) * 65536 + u.lo
    ELSE u.hi * 65536 + u.lo

\* VocabularyImpl::new: the outcomes a build can produce.  `max(..) - 1` is
\* a usize subtraction: on 0 it panics where overflow checks are compiled in
\* (debug builds) and wraps where they are not (release builds).
VocabularyImpl_new(literal_names, symbolic_names, display_names) ==
    LET m == Max(Len(display_names), Max(Len(literal_names), Len(symbolic_names)))
        built == [state |-> "ok",
                  literal_names |-> literal_names,
                  symbolic_names |-> symbolic_names,
                  display_names |-> display_names,
                  max_token_type |-> as_i32(usize_wrapping_sub_one(m))]
    IN  IF m >= 1
        THEN {built}
        ELSE {built, [built EXCEPT !.state = "panic", !.max_token_type = 0]}

\* the for loop of from_token_names from index i (1-based) on: literal and
\* symbolic are the two clones being edited; chars().next().unwrap() panics
\* on an empty name
RECURSIVE from_token_names_loop(_, _, _, _)
from_token_names_loop(token_names, literal, symbolic, i) ==
    IF i > Len(token_names)
    THEN [panic |-> FALSE, literal |-> literal, symbolic |-> symbolic]
    ELSE IF token_names[i].some /\ token_names[i].val = <<>>
         THEN [panic |-> TRUE, literal |-> literal, symbolic |-> symbolic]
         ELSE IF token_names[i].some /\ token_names[i].val[1] = "'"
              THEN from_token_names_loop(token_names, literal,
                                         [symbolic EXCEPT ![i] = None], i + 1)
              ELSE IF token_names[i].some /\ is_uppercase(token_names[i].val[1])
                   THEN from_token_names_loop(token_names,
                                              [literal EXCEPT ![i] = None],
                                              symbolic, i + 1)
                   ELSE from_token_names_loop(token_names,
                                              [literal EXCEPT ![i] = None],
                                              [symbolic EXCEPT ![i] = None], i + 1)

\* VocabularyImpl::from_token_names: the outcomes a build can produce
from_token_names(token_names) ==
    IF Len(token_names) = 0
    THEN VocabularyImpl_new(<<>>, <<>>, <<>>)
    ELSE LET r == from_token_names_loop(token_names, token_names, token_names, 1)
         IN  IF r.panic
             THEN {[NoVocab EXCEPT !.state = "panic", !.display_names = token_names]}
             ELSE VocabularyImpl_new(r.literal, r.symbolic, token_names)

get_max_token_type(v) == v.max_token_type

get_literal_name(v, token_type) ==
    IF token_type >= 0 /\ token_type < Len(v.literal_names)
    THEN v.literal_names[token_type + 1]
    ELSE None

get_symbolic_name(v, token_type) ==
    IF token_type >= 0 /\ token_type < Len(v.symbolic_names)
    THEN v.symbolic_names[token_type + 1]
    ELSE IF token_type = INT_STREAM_EOF
         THEN Some(<<"E", "O", "F">>)
         ELSE None

get_display_name(v, token_type) ==
    IF token_type >= 0 /\ token_type < Len(v.display_names)
    THEN v.display_names[token_type + 1]
    ELSE IF get_literal_name(v, token_type).some
         THEN get_literal_name(v, token_type)
         ELSE IF get_symbolic_name(v, token_type).some
              THEN get_symbolic_name(v, token_type)
              ELSE None

\* the IntervalSet side of the state, which no vocabulary call touches
ivars == <<intervals, read_only, op, arg, ret, out, num, lst, pre, loop>>

InitVocab == InitInterval

\* let v = VocabularyImpl::new(literal_names, symbolic_names, display_names)
VocabNew(literal_names, symbolic_names, display_names) ==
    /\ vocabulary.state = "none"
    /\ vocabulary' \in VocabularyImpl_new(literal_names, symbolic_names, display_names)
    /\ vcall' = [NoCall EXCEPT !.op = "new"]
    /\ UNCHANGED ivars

\* let v = VocabularyImpl::from_token_names(token_names)
FromTokenNames(token_names) ==
    /\ vocabulary.state = "none"
    /\ vocabulary' \in from_token_names(token_names)
    /\ vcall' = [NoCall EXCEPT !.op = "from_token_names"]
    /\ UNCHANGED ivars

GetMaxTokenType ==
    /\ vocabulary.state = "ok"
    /\ vcall' = [NoCall EXCEPT !.op = "get_max_token_type",
                               !.num = get_max_token_type(vocabulary)]
    /\ UNCHANGED <<ivars, vocabulary>>

GetLiteralName(token_type) ==
    /\ vocabulary.state = "ok"
    /\ vcall' = [NoCall EXCEPT !.op = "get_literal_name",
                               !.token_type = token_type,
                               !.name = get_literal_name(vocabulary, token_type)]
    /\ UNCHANGED <<ivars, vocabulary>>

GetSymbolicName(token_type) ==
    /\ vocabulary.state = "ok"
    /\ vcall' = [NoCall EXCEPT !.op = "get_symbolic_name",
                               !.token_type = token_type,
                               !.name = get_symbolic_name(vocabulary, token_type)]
    /\ UNCHANGED <<ivars, vocabulary>>

GetDisplayName(token_type) ==
    /\ vocabulary.state = "ok"
    /\ vcall' = [NoCall EXCEPT !.op = "get_display_name",
                               !.token_type = token_type,
                               !.name = get_display_name(vocabulary, token_type)]
    /\ UNCHANGED <<ivars, vocabulary>>

NextVocab ==
    \/ \E l \in NameLists, s \in NameLists, d \in NameLists : VocabNew(l, s, d)
    \/ \E tn \in NameLists : FromTokenNames(tn)
    \/ GetMaxTokenType
    \/ \E t \in TokenTypes : GetLiteralName(t)
    \/ \E t \in TokenTypes : GetSymbolicName(t)
    \/ \E t \in TokenTypes : GetDisplayName(t)

SpecVocab == InitVocab /\ [][NextVocab]_vars

(***************************************************************************)
(* Properties                                                              *)
(***************************************************************************)

\* C1: a set built from new() / a sorted, disjoint sequence by add (and by
\* add_set and clear, which go through the same primitive) with well-formed
\* intervals always stores a sequence that is sorted strictly ascending with
\* no two intervals overlapping or adjacent: p.b + 1 < q.a for consecutive p, q.
C1_SortedDisjoint == Normalized(intervals)

\* an add that merged the three intervals [0,0], [2,2], [4,4] (or found [0,4])
C1_Witness ==
    /\ op = "add"
    /\ ret = "Ok"
    /\ arg.ivs = <<Interval(1, 3)>>
    /\ intervals = <<Interval(0, 4)>>

\* the scan of add(I) triggers on no stored interval: none equals I, none is
\* adjacent to or overlaps I, none starts after I
NoTrigger(ivs, I) ==
    \A i \in 1..Len(ivs) :
        /\ ivs[i] # I
        /\ ~adjacent(I, ivs[i])
        /\ disjoint(I, ivs[i])
        /\ ~starts_before_disjoint(I, ivs[i])

\* C2: when add(I) is called on a non-read-only set and the scan triggers on
\* no stored interval, I is appended at the end of the sequence, so that the
\* set afterwards covers every integer of I.
C2_AppendAtEnd ==
    [][(op' = "add" /\ ~read_only /\ NoTrigger(intervals, arg'.ivs[1]))
          => /\ intervals' = Append(intervals, arg'.ivs[1])
             /\ Covered(arg'.ivs) \subseteq Covered(intervals')]_vars

\* C3: on a sorted/disjoint set (the empty one included) contains(x) returns a
\* boolean, without fault, for every integer x, and the boolean is true
\* exactly when x is an element of to_integer_list().
C3_ContainsAgreesWithList ==
    op = "contains"
       => /\ ret \in {"true", "false"}
          /\ (ret = "true") <=> (arg.n \in Elems(to_integer_list(intervals)))

\* C4: for sorted/disjoint A and B, A.and(Some(B)) returns a set covering
\* exactly the integers covered by both A and B.
C4_AndIsIntersection ==
    (op = "and" /\ arg.v)
       => /\ ret = "Some"
          /\ Covered(out) = Covered(intervals) \cap Covered(arg.ivs)

\* C5: for sorted/disjoint A and B, A.subtract(B) returns a set covering
\* exactly the integers covered by A and not by B, the split case (an
\* interval of B strictly inside an interval of A) included.
C5_SubtractIsDifference ==
    op = "subtract" => Covered(out) = Covered(intervals) \ Covered(arg.ivs)

\* the split case: {[0,4]} minus {[1,2]} is {[0,0],[3,4]}
C5_Witness ==
    /\ op = "subtract"
    /\ intervals = <<Interval(0, 4)>>
    /\ arg.ivs = <<Interval(1, 2)>>
    /\ out = <<Interval(0, 0), Interval(3, 4)>>

\* C6: on a read-only set add, add_set and clear return the read-only failure
\* and leave the stored sequence and the flag as they were; on a set whose
\* flag is not set add returns success.
C6_ReadOnlyRefused ==
    [][/\ (op' \in {"add", "add_set", "clear"} /\ read_only)
            => /\ ret' = "Err"
               /\ intervals' = intervals
               /\ read_only' = read_only
       /\ (op' = "add" /\ ~read_only) => ret' = "Ok"]_vars

\* clear refused on a read-only set that still holds its intervals
C6_Witness ==
    /\ op = "clear"
    /\ ret = "Err"
    /\ read_only
    /\ Len(intervals) > 0

\* C7: the flag is one-way: once set it is set in every later state;
\* set_read_only(false) on a read-only set panics and leaves the flag set;
\* every other set_read_only(v) completes and leaves the flag equal to v.
C7_FlagOneWay ==
    [][/\ read_only => read_only'
       /\ op' = "set_read_only"
            => IF read_only /\ ~arg'.v
               THEN ret' = "panic" /\ read_only'
               ELSE ret' = "Ok" /\ read_only' = arg'.v]_vars

\* set_read_only(false) has panicked on a read-only set
C7_Witness ==
    /\ op = "set_read_only"
    /\ ~arg.v
    /\ ret = "panic"
    /\ read_only

\* C8: once the flag is set the stored sequence is the same in every later
\* state, whichever of add, add_set, clear, remove, of, of_same is invoked.
C8_FrozenSequence == [][read_only => intervals' = intervals]_vars

\* C9: for non-read-only sorted/disjoint A and B, the integers covered by A
\* after A.add_set(B) are those covered by B after B.add_set(A), and both are
\* the union of the integers covered by A and by B.
C9_UnionCommutes ==
    [][(op' = "add_set" /\ ~read_only)
          => /\ Covered(intervals') = Covered(intervals) \cup Covered(arg'.ivs)
             /\ Covered(intervals')
                  = Covered(add_set(arg'.ivs, FALSE, intervals).intervals)]_vars

\* C10: for every set reachable through new, new_from_intervals, of, of_same,
\* add, add_set and clear, size() is the number of elements of
\* to_integer_list().
C10_SizeIsListLength == size(intervals) = Len(to_integer_list(intervals))

\* I and r overlap or are adjacent (both well-formed): no integer lies
\* strictly between them
Touches(I, r) == I.a <= r.b + 1 /\ r.a <= I.b + 1

\* C11: on a non-read-only sorted/disjoint set, add(I) with every integer of
\* I inside one stored interval (I equal to it or a sub-range of it) returns
\* success and leaves the stored sequence exactly as it was.
C11_CoveredAddIsNoOp ==
    (/\ op = "add"
     /\ ~read_only
     /\ \E i \in 1..Len(pre) : pre[i].a <= arg.ivs[1].a /\ arg.ivs[1].b <= pre[i].b)
       => ret = "Ok" /\ intervals = pre

\* add of the strict sub-range [3,3] of the stored [2,4]
C11_Witness ==
    /\ op = "add"
    /\ ret = "Ok"
    /\ arg.ivs = <<Interval(3, 3)>>
    /\ pre = <<Interval(0, 0), Interval(2, 4)>>
    /\ intervals = pre

\* C12: on a non-read-only sorted/disjoint set, add(I) with a well-formed I
\* that overlaps or is adjacent to at least one stored interval replaces all
\* the stored intervals that overlap or are adjacent to I by the single
\* interval [min of their starts and I.a, max of their ends and I.b] and
\* leaves every other stored interval unchanged, in its original order.
C12_MergeReplacesTouched ==
    (/\ op = "add"
     /\ ~read_only
     /\ \E i \in 1..Len(pre) : Touches(arg.ivs[1], pre[i]))
       => LET I  == arg.ivs[1]
              T  == {i \in 1..Len(pre) : Touches(I, pre[i])}
              lo == CHOOSE i \in T : \A k \in T : i <= k
              hi == CHOOSE i \in T : \A k \in T : i >= k
              merged == Interval(Min(I.a, pre[lo].a), Max(I.b, pre[hi].b))
          IN  /\ T = lo..hi
              /\ intervals = SubSeq(pre, 1, lo - 1) \o <<merged>>
                               \o SubSeq(pre, hi + 1, Len(pre))

\* [1,3] is adjacent to [0,0] and [4,4] and overlaps [2,2]: one interval is left
C12_Witness ==
    /\ op = "add"
    /\ arg.ivs = <<Interval(1, 3)>>
    /\ pre = <<Interval(0, 0), Interval(2, 2), Interval(4, 4)>>
    /\ intervals = <<Interval(0, 4)>>

\* C13: on a non-read-only sorted/disjoint set, add(I) with a well-formed I
\* that touches no stored interval and ends before the start of at least one
\* of them inserts I immediately before the first stored interval that
\* starts after it: one interval more, the others unchanged and in order.
C13_InsertBeforeFirstLater ==
    (/\ op = "add"
     /\ ~read_only
     /\ \A i \in 1..Len(pre) : ~Touches(arg.ivs[1], pre[i])
     /\ \E i \in 1..Len(pre) : arg.ivs[1].b < pre[i].a)
       => LET I == arg.ivs[1]
              k == CHOOSE i \in 1..Len(pre) :
                      /\ pre[i].a > I.a
                      /\ \A h \in 1..(i - 1) : pre[h].a <= I.a
          IN  /\ Len(intervals) = Len(pre) + 1
              /\ intervals[k] = I
              /\ \A i \in 1..(k - 1) : intervals[i] = pre[i]
              /\ \A i \in k..Len(pre) : intervals[i + 1] = pre[i]

\* [2,2] inserted between [0,0] and [4,4]
C13_Witness ==
    /\ op = "add"
    /\ arg.ivs = <<Interval(2, 2)>>
    /\ pre = <<Interval(0, 0), Interval(4, 4)>>
    /\ intervals = <<Interval(0, 0), Interval(2, 2), Interval(4, 4)>>

\* C14: S.complement(U) is None exactly when U has no stored intervals and
\* otherwise is a set with the stored intervals of U.subtract(S);
\* complement_range(a, b) gives what complement gives against {[a,b]}.
C14_ComplementIsSubtract ==
    /\ op = "complement"
         => /\ (ret = "None") <=> (Len(arg.ivs) = 0)
            /\ Len(arg.ivs) > 0
                 => ret = "Some" /\ out = subtract(arg.ivs, intervals)
    /\ op = "complement_range"
         => LET r == complement(intervals, arg.ivs) IN
            ret = r.ret /\ out = r.intervals

\* {[1,2]} complemented against the universe {[0,4]} is {[0,0],[3,4]}
C14_Witness ==
    /\ op = "complement"
    /\ intervals = <<Interval(1, 2)>>
    /\ arg.ivs = <<Interval(0, 4)>>
    /\ ret = "Some"
    /\ out = <<Interval(0, 0), Interval(3, 4)>>

\* C15: first() returns the invalid/empty failure exactly when the set has no
\* stored intervals and never aborts; otherwise it returns the start of the
\* first stored interval, which on a sorted/disjoint set is the smallest
\* integer covered and the value of get_min_element().
C15_FirstIsMinimum ==
    op = "first"
       => /\ ret \in {"Ok", "Err"}
          /\ (ret = "Err") <=> (Len(intervals) = 0)
          /\ ret = "Ok"
               => /\ num = intervals[1].a
                  /\ num \in Covered(intervals)
                  /\ \A x \in Covered(intervals) : num <= x
                  /\ get_min_element(intervals) = [ret |-> "Some", num |-> num]

\* first() on a set of two intervals
C15_Witness ==
    /\ op = "first"
    /\ ret = "Ok"
    /\ num = 1
    /\ intervals = <<Interval(1, 2), Interval(4, 4)>>

\* C16: for every interval with bounds in the model's range, length() is the
\* number of integers x with contains(x), and 0 when the interval is empty.
C16_LengthCountsContained ==
    op = "length"
       => num = Cardinality({x \in Probes : interval_contains(arg.ivs[1], x)})

\* C20: for well-formed p and q, p.disjoint(q) is true exactly when no
\* integer x has p.contains(x) and q.contains(x), and it equals q.disjoint(p).
C20_DisjointSharesNoInteger ==
    (/\ op = "disjoint"
     /\ WellFormed(arg.ivs[1])
     /\ WellFormed(arg.ivs[2]))
       => LET p == arg.ivs[1]
              q == arg.ivs[2]
          IN  /\ (ret = "true")
                   <=> ~(\E x \in Probes : interval_contains(p, x) /\ interval_contains(q, x))
              /\ ret = Bool(disjoint(q, p))

\* [2,3] against [0,1]: the second branch of disjoint decides, they share nothing
C20_Witness ==
    /\ op = "disjoint"
    /\ arg.ivs = <<Interval(2, 3), Interval(0, 1)>>
    /\ ret = "true"

\* two well-formed intervals share an integer
Overlap(p, q) == \E x \in Probes : interval_contains(p, x) /\ interval_contains(q, x)

\* C17: in and's loop, when the two current intervals overlap and one of them
\* contains the other, the cursor advanced is the one at the contained
\* interval: j (the other set's) when mine contains theirs, i (self's) when
\* theirs contains mine.
C17_AdvanceContained ==
    [][(loop.pc = "and" /\ loop'.pc = "and")
          => LET mine   == intervals[loop.i + 1]
                 theirs == arg.ivs[loop.j + 1]
             IN  /\ (Overlap(mine, theirs) /\ properly_contains(mine, theirs))
                       => loop'.j = loop.j + 1 /\ loop'.i = loop.i
                 /\ (/\ Overlap(mine, theirs)
                     /\ properly_contains(theirs, mine)
                     /\ ~properly_contains(mine, theirs))
                       => loop'.i = loop.i + 1 /\ loop'.j = loop.j]_vars

\* C18: on sorted/disjoint sets of well-formed intervals the loops of and and
\* of subtract_intervalsets terminate: every iteration advances one of the
\* two cursors or removes the current result interval, and a loop that was
\* entered is left.
C18_LoopsTerminate ==
    /\ [][(loop.pc # "idle" /\ loop'.pc = loop.pc)
             => \/ loop'.i > loop.i
                \/ loop'.j > loop.j
                \/ Len(loop'.res) < Len(loop.res)]_vars
    /\ (loop.pc # "idle") ~> (loop.pc = "idle")

\* subtract has returned after iterations that shrank [0,4] from the left,
\* split it and advanced over both intervals of the subtrahend
C18_Witness ==
    /\ loop.pc = "idle"
    /\ op = "subtract"
    /\ ret = "value"
    /\ intervals = <<Interval(0, 4)>>
    /\ arg.ivs = <<Interval(0, 0), Interval(2, 2)>>
    /\ out = <<Interval(1, 1), Interval(3, 4)>>

\* C19: when both inputs are sorted/disjoint, the sets returned by and and by
\* subtract are sorted/disjoint too (well-formed intervals, ascending, no two
\* overlapping or adjacent), and the receiver's stored intervals are after
\* the call what they were before it.
C19_ResultsSortedDisjoint ==
    (op \in {"and", "subtract"} /\ ret \in {"Some", "value"})
       => Normalized(out) /\ intervals = pre

\* a subtraction that splits twice: {[0,4]} minus {[1,1],[3,3]}
C19_Witness ==
    /\ op = "subtract"
    /\ intervals = <<Interval(0, 4)>>
    /\ arg.ivs = <<Interval(1, 1), Interval(3, 3)>>
    /\ out = <<Interval(0, 0), Interval(2, 2), Interval(4, 4)>>

\* C21: for well-formed s and o with o not strictly inside s,
\* s.difference_not_properly_contained(o) is None exactly when s and o share
\* no integer, and otherwise is one interval covering exactly the integers of
\* s that are not in o: o.b+1..s.b when o trims the left edge of s,
\* s.a..o.a-1 when o trims the right edge.
C21_DifferenceIsRemainder ==
    (op = "difference_not_properly_contained")
       => LET s == arg.ivs[1]
              o == arg.ivs[2]
          IN  (/\ WellFormed(s)
               /\ WellFormed(o)
               /\ ~(s.a < o.a /\ o.b < s.b))
                 => /\ (ret = "None") <=> ~Overlap(s, o)
                    /\ (ret = "Some")
                          => /\ Len(out) = 1
                             /\ \A x \in Probes :
                                   interval_contains(out[1], x)
                                      <=> (interval_contains(s, x) /\ ~interval_contains(o, x))
                             /\ (o.a <= s.a /\ o.b < s.b) => out[1] = Interval(o.b + 1, s.b)
                             /\ (o.a > s.a) => out[1] = Interval(s.a, o.a - 1)

\* 0..1 trims the left edge of 1..3: the right remainder 2..3 is returned
C21_Witness ==
    /\ op = "difference_not_properly_contained"
    /\ arg.ivs = <<Interval(1, 3), Interval(0, 1)>>
    /\ ret = "Some"
    /\ out = <<Interval(2, 3)>>

\* C22: get_display_name(t) is the display-name entry of t when there is
\* one, otherwise the literal name of t when there is one, otherwise the
\* symbolic name of t when there is one ("EOF" for -1), and None only when
\* none of the three exists.
C22_DisplayNameFallsBack ==
    (vcall.op = "get_display_name")
       => LET t    == vcall.token_type
              disp == IF t >= 0 /\ t < Len(vocabulary.display_names)
                      THEN vocabulary.display_names[t + 1]
                      ELSE None
              lit  == get_literal_name(vocabulary, t)
              sym  == get_symbolic_name(vocabulary, t)
          IN  vcall.name = IF disp.some THEN disp
                           ELSE IF lit.some THEN lit
                           ELSE IF sym.some THEN sym
                           ELSE None

\* C23: VocabularyImpl::new returns, for every three lists, a vocabulary
\* whose max_token_type is the largest of the three lengths minus 1 (-1 for
\* three empty lists), and so does from_token_names on an empty list.
C23_MaxTokenTypeNoFault ==
    /\ (vcall.op = "new")
          => /\ vocabulary.state = "ok"
             /\ vocabulary.max_token_type
                   = Max(Len(vocabulary.display_names),
                         Max(Len(vocabulary.literal_names),
                             Len(vocabulary.symbolic_names))) - 1
    /\ (vcall.op = "from_token_names" /\ vocabulary.display_names = <<>>)
          => /\ vocabulary.state = "ok"
             /\ vocabulary.max_token_type = 0 - 1

=============================================================================
